---- MODULE Spec2Model ----
(***************************************************************************)
(* A state-machine model of src/net.rs of libsrt-rs: the Builder           *)
(* (connect / bind / accept), Stream, Listener and Poll wrappers over the  *)
(* transport engine (crate libsrt_sys).  The wrappers are translated from  *)
(* net.rs; the engine primitives they call are modelled from their         *)
(* contract, with every outcome the engine may report drawn                *)
(* nondeterministically.                                                   *)
(***************************************************************************)
EXTENDS Naturals, Sequences, FiniteSets, Bags

\* ------------------------------------------------------------------ bounds
MaxHandles == 2
MaxToken == 2
\* bytes a peer sends to one stream; bytes a send buffer holds; engine steps
\* and operations in a bounded session
MaxBytes == 2
MaxTx == 1
MaxOps == 5

\* --------------------------------------------------------- program constants
\* sock.listen(128)
Backlog == 128

VARIABLES
    inited,     \* the engine's process-wide initialization has happened
    socks,      \* the engine's handle table: handle -> socket record
    nextH,      \* the next handle the engine allocates
    wrappers,   \* bag of the live Stream / Listener values, each owning a handle
    reg,        \* the Poll's registrations: set of [h, token, interest]
    believed,   \* history: per handle, the token of the last register / reregister
                \* that returned Ok, 0 once a deregister returned Ok
    prev,       \* history: per handle, the token that the last Ok reregister
                \* replaced by a different one, else 0
    gone,       \* history: per handle, the token it had when the last deregister
                \* returned Ok, 0 if registered (Ok) since or never deregistered
    asked,      \* history: per handle, the interest of the last register /
                \* reregister that returned Ok, {} once a deregister returned Ok
    rx,         \* per handle, the bytes received and not yet read, oldest first
    sent,       \* history: per handle, every byte the peer has written, in order
    got,        \* history: per handle, every byte a read has returned, in order
    tx,         \* per handle, the number of bytes in the engine's send buffer
    budget,     \* the steps the session may still take; Unlimited: no bound
    last,       \* the last operation, what it returned and, for poll, the Events
                \* buffer as the call left it: a set of [token, kind, src]
    calls       \* the engine calls the last operation made, in order

vars == <<inited, socks, nextH, wrappers, reg, believed, prev, gone, asked,
          rx, sent, got, tx, budget, last, calls>>
dataVars == <<rx, sent, got, tx>>

Unlimited == MaxOps + 1
\* Every step takes one unit of a bounded session's budget.
Burn ==
    /\ budget > 0
    /\ budget' = IF budget = Unlimited THEN Unlimited ELSE budget - 1

Handle == 1..MaxHandles
Token == 1..MaxToken
Kinds == {"Readable", "Writable"}
EventKind == (SUBSET Kinds) \ {{}}

\* ------------------------------------------------------------- the engine
\* Outcomes of the engine's primitives, as io::Result kinds.
Errors == {"WouldBlock", "ConnectionRefused", "Other"}
NewOutcomes == {"Ok", "Other"}
SetOutcomes == {"Ok", "Other"}
ConnectOutcomes == {"Ok"} \cup Errors
BindOutcomes == {"Ok", "Other"}
AcceptOutcomes == {"Ok", "WouldBlock", "Other"}
PollOutcomes == {"Ok", "Other"}

NoSock == [st |-> "free", snd_nb |-> FALSE, rcv_nb |-> FALSE, backlog |-> 0]

\* Socket::new: a fresh handle, both directions at the engine default (blocking).
Socket_new == [st |-> "open", snd_nb |-> FALSE, rcv_nb |-> FALSE, backlog |-> 0]

\* Socket::new fails when the engine has no handle left, or on its own account.
Socket_new_res(n, o) == IF n > MaxHandles THEN "Other" ELSE o

\* sys::init(): idempotent process-wide initialization.
sys_init(i) == TRUE

\* Socket::set_send_nonblocking / set_recv_nonblocking(true) on handle h.
Socket_set_nonblocking(s, h, f) ==
    IF f = "set_send_nonblocking"
    THEN [s EXCEPT ![h].snd_nb = TRUE]
    ELSE [s EXCEPT ![h].rcv_nb = TRUE]

\* Socket::connect with outcome rc.
Socket_connect(s, h, rc) ==
    [s EXCEPT ![h].st = CASE rc = "Ok" -> "connected"
                          [] rc = "WouldBlock" -> "connecting"
                          [] OTHER -> @]

\* Socket::bind then Socket::listen(backlog).
Socket_bind(s, h) == [s EXCEPT ![h].st = "bound"]
Socket_listen(s, h, n) == [s EXCEPT ![h].st = "listening", ![h].backlog = n]

\* Drop for Socket: the handle is closed.
Closed == [st |-> "closed", snd_nb |-> FALSE, rcv_nb |-> FALSE, backlog |-> 0]
Socket_drop(s, h) == [s EXCEPT ![h] = Closed]

Live(h) == socks[h].st \notin {"free", "closed"}

Call(f, h, r) == [f |-> f, h |-> h, r |-> r]

Stream(h) == [kind |-> "Stream", sock |-> h]
Listener(h) == [kind |-> "Listener", sock |-> h]
One(w) == SetToBag({w})

\* ------------------------------------------------------------- Builder
Builder_new == [nonblocking |-> FALSE]
Builder_nonblocking(b, nonblocking) == [b EXCEPT !.nonblocking = nonblocking]
Builders == {Builder_nonblocking(Builder_new, x) : x \in BOOLEAN}

\* Variants of the definitions below, each with one defect, used to show that
\* the properties at the end of the module depend on the code they are about.
bind_sets_both(b) ==
    IF b.nonblocking THEN <<"set_send_nonblocking", "set_recv_nonblocking">> ELSE <<>>
accept_sets_send_only(b) ==
    IF b.nonblocking THEN <<"set_send_nonblocking">> ELSE <<>>
accept_sets_always(b) == <<"set_send_nonblocking", "set_recv_nonblocking">>
connect_match_surface(b, rc) == rc
connect_match_swallow(b, rc) == IF rc = "Ok" \/ rc = "WouldBlock" THEN "Ok" ELSE rc
connect_match_swallow_all(b, rc) == IF b.nonblocking THEN "Ok" ELSE rc
connect_on_err_leak(s, h) == s
connect_prologue_new_first == <<"new", "init">>
connect_sets_recv_first(b) ==
    IF b.nonblocking THEN <<"set_recv_nonblocking", "set_send_nonblocking">> ELSE <<>>
laccept_sets_recv(l) == IF l.rcv_nb THEN <<"set_recv_nonblocking">> ELSE <<>>

\* The engine calls that open Builder::connect and Builder::bind, in order:
\* sys::init(), then Socket::new(addr)?.
connect_prologue == <<"init", "new">>
bind_prologue == <<"init", "new">>

\* A prologue p run with outcome rn of Socket::new for handle h: `?` returns
\* at a failing Socket::new, so the calls made are those up to it, else all.
NewAt(p) == CHOOSE i \in 1..Len(p) : p[i] = "new"
PrologueLen(p, rn) == IF rn # "Ok" THEN NewAt(p) ELSE Len(p)
PrologueCalls(p, h, rn) ==
    [i \in 1..PrologueLen(p, rn) |->
        IF p[i] = "new" THEN Call("new", h, rn) ELSE Call("init", 0, "Ok")]
PrologueInit(p, rn, i) ==
    IF \E k \in 1..PrologueLen(p, rn) : p[k] = "init" THEN sys_init(i) ELSE i

\* The setters each Builder operation issues, in order.
connect_sets(b) ==
    IF b.nonblocking THEN <<"set_send_nonblocking", "set_recv_nonblocking">> ELSE <<>>
bind_sets(b) ==
    IF b.nonblocking THEN <<"set_recv_nonblocking">> ELSE <<>>
accept_sets(b) ==
    IF b.nonblocking THEN <<"set_send_nonblocking", "set_recv_nonblocking">> ELSE <<>>
\* Listener::accept, on a listener whose socket record is l, issues none.
laccept_sets(l) == <<>>

\* `setter(true)?` for each setter of fs on handle h, with outcomes outs: the
\* calls stop at the first failure.  FirstErr is the index of the failing call
\* (0: none), Issued the number of calls made.
FirstErr(fs, outs) ==
    IF \E i \in 1..Len(fs) : outs[i] # "Ok"
    THEN CHOOSE i \in 1..Len(fs) : outs[i] # "Ok" /\ \A j \in 1..(i-1) : outs[j] = "Ok"
    ELSE 0
Issued(fs, outs) == IF FirstErr(fs, outs) = 0 THEN Len(fs) ELSE FirstErr(fs, outs)
RECURSIVE ApplySets(_, _, _, _, _)
ApplySets(s, h, fs, outs, i) ==
    IF i > Issued(fs, outs) THEN s
    ELSE ApplySets(IF outs[i] = "Ok" THEN Socket_set_nonblocking(s, h, fs[i]) ELSE s,
                   h, fs, outs, i + 1)
SetCalls(h, fs, outs) == [i \in 1..Issued(fs, outs) |-> Call(fs[i], h, outs[i])]
SetRes(fs, outs) == IF FirstErr(fs, outs) = 0 THEN "Ok" ELSE outs[FirstErr(fs, outs)]

\* The match on sock.connect(addr) in Builder::connect: what the statement
\* yields, "Ok" to go on, or the error returned.
connect_match(b, rc) ==
    IF b.nonblocking
    THEN IF rc = "Ok" \/ rc = "WouldBlock" THEN "Ok" ELSE rc
    ELSE rc

\* An early return by `?` or `return Err(e)` drops the local sock.
connect_on_err(s, h) == Socket_drop(s, h)
bind_on_err(s, h) == Socket_drop(s, h)
accept_on_err(s, h) == Socket_drop(s, h)
laccept_on_err(s, h) == Socket_drop(s, h)

Ret(op, b, res, h, arg, pre) ==
    [op |-> op, nb |-> b.nonblocking, res |-> res, h |-> h, arg |-> arg, pre |-> pre,
     ev |-> {}, old |-> {}, rd |-> {}, data |-> <<>>]

Builder_connect(b) ==
    /\ Burn
    /\ UNCHANGED dataVars
    /\ UNCHANGED <<reg, believed, prev, gone, asked>>
    /\ \E rn \in {Socket_new_res(nextH, o) : o \in NewOutcomes} :
         IF rn # "Ok"
         THEN /\ inited' = PrologueInit(connect_prologue, rn, inited)
              /\ last' = Ret("connect", b, rn, 0, 0, NoSock)
              /\ calls' = PrologueCalls(connect_prologue, 0, rn)
              /\ UNCHANGED <<socks, nextH, wrappers>>
         ELSE LET h == nextH
                  s0 == [socks EXCEPT ![h] = Socket_new]
                  c0 == PrologueCalls(connect_prologue, h, "Ok")
                  fs == connect_sets(b)
              IN /\ nextH' = nextH + 1
                 /\ inited' = PrologueInit(connect_prologue, "Ok", inited)
                 /\ \E outs \in [1..Len(fs) -> SetOutcomes] :
                      LET s1 == ApplySets(s0, h, fs, outs, 1)
                          c1 == c0 \o SetCalls(h, fs, outs)
                      IN IF SetRes(fs, outs) # "Ok"
                         THEN /\ socks' = connect_on_err(s1, h)
                              /\ last' = Ret("connect", b, SetRes(fs, outs), 0, 0, NoSock)
                              /\ calls' = c1
                              /\ UNCHANGED wrappers
                         ELSE \E rc \in ConnectOutcomes :
                              LET s2 == Socket_connect(s1, h, rc)
                                  c2 == Append(c1, Call("connect", h, rc))
                              IN /\ calls' = c2
                                 /\ IF connect_match(b, rc) # "Ok"
                                    THEN /\ socks' = connect_on_err(s2, h)
                                         /\ last' = Ret("connect", b, connect_match(b, rc),
                                                        0, 0, NoSock)
                                         /\ UNCHANGED wrappers
                                    ELSE /\ socks' = s2
                                         /\ last' = Ret("connect", b, "Ok", h, 0, NoSock)
                                         /\ wrappers' = wrappers (+) One(Stream(h))

Builder_bind(b) ==
    /\ Burn
    /\ UNCHANGED dataVars
    /\ UNCHANGED <<reg, believed, prev, gone, asked>>
    /\ \E rn \in {Socket_new_res(nextH, o) : o \in NewOutcomes} :
         IF rn # "Ok"
         THEN /\ inited' = PrologueInit(bind_prologue, rn, inited)
              /\ last' = Ret("bind", b, rn, 0, 0, NoSock)
              /\ calls' = PrologueCalls(bind_prologue, 0, rn)
              /\ UNCHANGED <<socks, nextH, wrappers>>
         ELSE LET h == nextH
                  s0 == [socks EXCEPT ![h] = Socket_new]
                  c0 == PrologueCalls(bind_prologue, h, "Ok")
              IN /\ nextH' = nextH + 1
                 /\ inited' = PrologueInit(bind_prologue, "Ok", inited)
                 /\ \E rb \in BindOutcomes, rl \in BindOutcomes :
                      IF rb # "Ok"
                      THEN /\ socks' = bind_on_err(s0, h)
                           /\ last' = Ret("bind", b, rb, 0, 0, NoSock)
                           /\ calls' = Append(c0, Call("bind", h, rb))
                           /\ UNCHANGED wrappers
                      ELSE IF rl # "Ok"
                      THEN /\ socks' = bind_on_err(Socket_bind(s0, h), h)
                           /\ last' = Ret("bind", b, rl, 0, 0, NoSock)
                           /\ calls' = c0 \o <<Call("bind", h, rb), Call("listen", h, rl)>>
                           /\ UNCHANGED wrappers
                      ELSE LET s1 == Socket_listen(Socket_bind(s0, h), h, Backlog)
                               c1 == c0 \o <<Call("bind", h, rb), Call("listen", h, rl)>>
                               fs == bind_sets(b)
                           IN \E outs \in [1..Len(fs) -> SetOutcomes] :
                                LET s2 == ApplySets(s1, h, fs, outs, 1)
                                IN /\ calls' = c1 \o SetCalls(h, fs, outs)
                                   /\ IF SetRes(fs, outs) # "Ok"
                                      THEN /\ socks' = bind_on_err(s2, h)
                                           /\ last' = Ret("bind", b, SetRes(fs, outs),
                                                          0, 0, NoSock)
                                           /\ UNCHANGED wrappers
                                      ELSE /\ socks' = s2
                                           /\ last' = Ret("bind", b, "Ok", h, 0, NoSock)
                                           /\ wrappers' = wrappers (+) One(Listener(h))

\* Builder::accept(stream): the stream is moved in, and moved out on Ok.
Builder_accept(b, w) ==
    /\ Burn
    /\ UNCHANGED dataVars
    /\ BagIn(w, wrappers) /\ w.kind = "Stream"
    /\ UNCHANGED <<inited, nextH, reg, believed, prev, gone, asked>>
    /\ LET h == w.sock
           fs == accept_sets(b)
       IN \E outs \in [1..Len(fs) -> SetOutcomes] :
            LET s1 == ApplySets(socks, h, fs, outs, 1)
            IN /\ calls' = SetCalls(h, fs, outs)
               /\ IF SetRes(fs, outs) # "Ok"
                  THEN /\ socks' = accept_on_err(s1, h)
                       /\ wrappers' = wrappers (-) One(w)
                       /\ last' = Ret("baccept", b, SetRes(fs, outs), 0, h, socks[h])
                  ELSE /\ socks' = s1
                       /\ wrappers' = wrappers
                       /\ last' = Ret("baccept", b, "Ok", h, h, socks[h])

\* Dropping a Stream or a Listener drops its Socket.
Drop(w) ==
    /\ Burn
    /\ BagIn(w, wrappers)
    /\ rx' = [rx EXCEPT ![w.sock] = <<>>]
    /\ sent' = [sent EXCEPT ![w.sock] = <<>>]
    /\ got' = [got EXCEPT ![w.sock] = <<>>]
    /\ tx' = [tx EXCEPT ![w.sock] = 0]
    /\ wrappers' = wrappers (-) One(w)
    /\ socks' = Socket_drop(socks, w.sock)
    /\ last' = Ret("drop", Builder_new, "Ok", 0, w.sock, socks[w.sock])
    /\ calls' = <<>>
    /\ UNCHANGED <<inited, nextH, reg, believed, prev, gone, asked>>

\* ------------------------------------------------------------- Listener
\* Socket::accept on a listening handle l with outcome ra: on Ok the engine
\* allocates handle h2, connected, with the mode flags it assigns to an accepted
\* handle (the fresh defaults, or the listener's own).
Socket_accept(s, l, h2, inherit) ==
    [s EXCEPT ![h2] = [st |-> "connected",
                       snd_nb |-> IF inherit THEN s[l].snd_nb ELSE Socket_new.snd_nb,
                       rcv_nb |-> IF inherit THEN s[l].rcv_nb ELSE Socket_new.rcv_nb,
                       backlog |-> 0]]

\* What Listener::accept returns for the engine's accept outcome ra.
listener_accept_res(ra) == ra

Listener_accept(w) ==
    /\ Burn
    /\ UNCHANGED dataVars
    /\ BagIn(w, wrappers) /\ w.kind = "Listener"
    /\ UNCHANGED <<inited, reg, believed, prev, gone, asked>>
    /\ \E ra \in AcceptOutcomes :
         /\ ra = "WouldBlock" => socks[w.sock].rcv_nb
         /\ IF ra # "Ok" \/ nextH > MaxHandles
            THEN LET r == IF ra = "Ok" THEN "Other" ELSE ra
                 IN /\ last' = Ret("laccept", Builder_new, listener_accept_res(r), 0,
                                   w.sock, NoSock)
                    /\ calls' = <<Call("accept", w.sock, r)>>
                    /\ UNCHANGED <<socks, nextH, wrappers>>
            ELSE \E inherit \in BOOLEAN :
                 LET h2 == nextH
                     s1 == Socket_accept(socks, w.sock, h2, inherit)
                     fs == laccept_sets(socks[w.sock])
                 IN /\ nextH' = nextH + 1
                    /\ \E outs \in [1..Len(fs) -> SetOutcomes] :
                         LET s2 == ApplySets(s1, h2, fs, outs, 1)
                         IN /\ calls' = <<Call("accept", w.sock, "Ok")>> \o SetCalls(h2, fs, outs)
                            /\ IF SetRes(fs, outs) # "Ok"
                               THEN /\ socks' = laccept_on_err(s2, h2)
                                    /\ last' = Ret("laccept", Builder_new, SetRes(fs, outs),
                                                   0, w.sock, NoSock)
                                    /\ UNCHANGED wrappers
                               ELSE /\ socks' = s2
                                    /\ wrappers' = wrappers (+) One(Stream(h2))
                                    /\ last' = Ret("laccept", Builder_new,
                                                   listener_accept_res("Ok"), h2, w.sock,
                                                   s1[h2])

\* The engine completes a connection that was in progress.
EngineConnected(h) ==
    /\ Burn
    /\ UNCHANGED dataVars
    /\ socks[h].st = "connecting"
    /\ socks' = [socks EXCEPT ![h].st = "connected"]
    /\ last' = Ret("engine", Builder_new, "Ok", h, 0, socks[h])
    /\ calls' = <<>>
    /\ UNCHANGED <<inited, nextH, wrappers, reg, believed, prev, gone, asked>>

\* ------------------------------------------------------------- Stream
Min(a, b) == IF a < b THEN a ELSE b
BufLens == 1..MaxBytes

\* Socket::recv / recv_vectored on a handle with socket record sk and unread
\* bytes q, into buffers of n bytes in all: the oldest bytes, as many as fit;
\* with nothing to read, would-block when the receive direction is nonblocking,
\* else the call does not return ("Blocked").
Socket_recv(sk, q, n) ==
    IF sk.st # "connected"
    THEN [res |-> "Other", data |-> <<>>, rx |-> q]
    ELSE IF q = <<>>
    THEN [res |-> IF sk.rcv_nb THEN "WouldBlock" ELSE "Blocked", data |-> <<>>, rx |-> q]
    ELSE [res |-> "Ok", data |-> SubSeq(q, 1, Min(n, Len(q))),
          rx |-> SubSeq(q, Min(n, Len(q)) + 1, Len(q))]

\* Socket::send / send_vectored of n bytes on a handle whose send buffer holds
\* c bytes: as many bytes as the buffer has room for; with no room, would-block
\* when the send direction is nonblocking, else the call does not return.
Socket_send(sk, c, n) ==
    IF sk.st # "connected"
    THEN [res |-> "Other", tx |-> c]
    ELSE IF c >= MaxTx
    THEN [res |-> IF sk.snd_nb THEN "WouldBlock" ELSE "Blocked", tx |-> c]
    ELSE [res |-> "Ok", tx |-> c + Min(n, MaxTx - c)]

RecvPrims == {"recv", "recv_vectored"}
SendPrims == {"send", "send_vectored"}

\* One engine primitive f applied to a handle's receive side q and send side c.
Socket_io(f, sk, q, c, n) ==
    IF f \in RecvPrims
    THEN [res |-> Socket_recv(sk, q, n).res, data |-> Socket_recv(sk, q, n).data,
          rx |-> Socket_recv(sk, q, n).rx, tx |-> c]
    ELSE [res |-> Socket_send(sk, c, n).res, data |-> <<>>,
          rx |-> q, tx |-> Socket_send(sk, c, n).tx]

\* Variants with one defect each (see above).
read_calls_twice(vectored) == <<"recv", "recv">>
write_calls_twice(vectored) ==
    IF vectored THEN <<"send_vectored", "send_vectored">> ELSE <<"send", "send">>
write_calls_recv(vectored) == IF vectored THEN <<"recv_vectored">> ELSE <<"recv">>

\* The engine calls made by Read::read / read_vectored, Write::write /
\* write_vectored and Write::flush, for Stream and for &Stream alike.
read_calls(vectored) == IF vectored THEN <<"recv_vectored">> ELSE <<"recv">>
write_calls(vectored) == IF vectored THEN <<"send_vectored">> ELSE <<"send">>
flush_calls == <<>>

\* The calls cs made in order from index i on handle h; what the operation
\* returns is what its last call returned, Ok(()) when it makes none.
RECURSIVE RunIo(_, _, _, _, _, _, _, _)
RunIo(cs, i, h, sk, q, c, n, acc) ==
    IF i > Len(cs) THEN [acc EXCEPT !.rx = q, !.tx = c]
    ELSE LET o == Socket_io(cs[i], sk, q, c, n)
         IN IF o.res = "Blocked" THEN [acc EXCEPT !.res = "Blocked"]
            ELSE RunIo(cs, i + 1, h, sk, o.rx, o.tx, n,
                       [acc EXCEPT !.res = o.res, !.data = o.data,
                                   !.calls = Append(@, Call(cs[i], h, o.res))])

Stream_io(w, op, cs, n) ==
    /\ Burn
    /\ BagIn(w, wrappers) /\ w.kind = "Stream"
    /\ LET h == w.sock
           out == RunIo(cs, 1, h, socks[h], rx[h], tx[h], n,
                        [res |-> "Ok", data |-> <<>>, calls |-> <<>>, rx |-> rx[h],
                         tx |-> tx[h]])
       IN /\ out.res # "Blocked"
          /\ rx' = [rx EXCEPT ![h] = out.rx]
          /\ tx' = [tx EXCEPT ![h] = out.tx]
          /\ got' = [got EXCEPT ![h] = @ \o out.data]
          /\ last' = [Ret(op, Builder_new, out.res, h, n, socks[h]) EXCEPT !.data = out.data]
          /\ calls' = out.calls
    /\ UNCHANGED <<inited, socks, nextH, wrappers, reg, believed, prev, gone, asked, sent>>

Stream_read(w, vectored, n) ==
    Stream_io(w, IF vectored THEN "read_vectored" ELSE "read", read_calls(vectored), n)
Stream_write(w, vectored, n) ==
    Stream_io(w, IF vectored THEN "write_vectored" ELSE "write", write_calls(vectored), n)
Stream_flush(w) == Stream_io(w, "flush", flush_calls, 0)

\* The peer writes one more byte to the stream on handle h.  Bytes are numbered
\* in the order written, so that every byte of a stream is distinct.
PeerWrite(h) ==
    /\ Burn
    /\ socks[h].st = "connected" /\ Len(sent[h]) < MaxBytes
    /\ rx' = [rx EXCEPT ![h] = Append(@, Len(sent[h]) + 1)]
    /\ sent' = [sent EXCEPT ![h] = Append(@, Len(sent[h]) + 1)]
    /\ last' = Ret("peer", Builder_new, "Ok", h, 0, socks[h])
    /\ calls' = <<>>
    /\ UNCHANGED <<inited, socks, nextH, wrappers, reg, believed, prev, gone, asked, got, tx>>

\* The engine transmits one byte of the send buffer of handle h.
EngineSent(h) ==
    /\ Burn
    /\ socks[h].st = "connected" /\ tx[h] > 0
    /\ tx' = [tx EXCEPT ![h] = @ - 1]
    /\ last' = Ret("engine", Builder_new, "Ok", h, 0, socks[h])
    /\ calls' = <<>>
    /\ UNCHANGED <<inited, socks, nextH, wrappers, reg, believed, prev, gone, asked,
                   rx, sent, got>>

\* ------------------------------------------------------------- Poll
Registered(r, h) == \E x \in r : x.h = h
Entry(h, t, e) == [h |-> h, token |-> t, interest |-> e]

\* sys::Poll::register / reregister / deregister: the new registrations and
\* the result, an error when the handle is in the wrong state.
sys_Poll_register(r, h, t, e) ==
    IF Registered(r, h)
    THEN [reg |-> r, res |-> "Other"]
    ELSE [reg |-> r \cup {Entry(h, t, e)}, res |-> "Ok"]
sys_Poll_reregister(r, h, t, e) ==
    IF ~Registered(r, h)
    THEN [reg |-> r, res |-> "Other"]
    ELSE [reg |-> {x \in r : x.h # h} \cup {Entry(h, t, e)}, res |-> "Ok"]
sys_Poll_deregister(r, h) ==
    IF ~Registered(r, h)
    THEN [reg |-> r, res |-> "Other"]
    ELSE [reg |-> {x \in r : x.h # h}, res |-> "Ok"]

\* Variants with one defect each (see above).
register_body_merge(r, h, t, e) ==
    IF Registered(r, h) THEN sys_Poll_reregister(r, h, t, e)
    ELSE sys_Poll_register(r, h, t, e)
reregister_body_reg(r, h, t, e) == sys_Poll_register(r, h, t, e)
reregister_body_stub(r, h, t, e) == [reg |-> r, res |-> "Ok"]
deregister_body_stub(r, h) == [reg |-> r, res |-> "Ok"]
register_body_stub(r, h, t, e) == [reg |-> r, res |-> "Ok"]
register_body_writable(r, h, t, e) == sys_Poll_register(r, h, t, {"Writable"})

\* The bodies of Poll::register, Poll::reregister and Poll::deregister.
register_body(r, h, t, e) == sys_Poll_register(r, h, t, e)
reregister_body(r, h, t, e) == sys_Poll_reregister(r, h, t, e)
deregister_body(r, h) == sys_Poll_deregister(r, h)

PollRet(op, res, h, t, ev) ==
    [op |-> op, nb |-> FALSE, res |-> res, h |-> h, arg |-> t, pre |-> NoSock, ev |-> ev,
     old |-> {}, rd |-> {}, data |-> <<>>]

Poll_register(w, t, e) ==
    /\ Burn
    /\ UNCHANGED dataVars
    /\ BagIn(w, wrappers)
    /\ LET out == register_body(reg, w.sock, t, e)
       IN /\ reg' = out.reg
          /\ last' = PollRet("register", out.res, w.sock, t, {})
          /\ believed' = IF out.res = "Ok" THEN [believed EXCEPT ![w.sock] = t]
                         ELSE believed
          /\ prev' = IF out.res = "Ok" THEN [prev EXCEPT ![w.sock] = 0] ELSE prev
          /\ gone' = IF out.res = "Ok" THEN [gone EXCEPT ![w.sock] = 0] ELSE gone
          /\ asked' = IF out.res = "Ok" THEN [asked EXCEPT ![w.sock] = e] ELSE asked
          /\ calls' = <<Call("poll_register", w.sock,
                             sys_Poll_register(reg, w.sock, t, e).res)>>
    /\ UNCHANGED <<inited, socks, nextH, wrappers>>

Poll_reregister(w, t, e) ==
    /\ Burn
    /\ UNCHANGED dataVars
    /\ BagIn(w, wrappers)
    /\ LET out == reregister_body(reg, w.sock, t, e)
       IN /\ reg' = out.reg
          /\ last' = PollRet("reregister", out.res, w.sock, t, {})
          /\ believed' = IF out.res = "Ok" THEN [believed EXCEPT ![w.sock] = t]
                         ELSE believed
          /\ prev' = IF out.res = "Ok"
                     THEN [prev EXCEPT ![w.sock] =
                              IF believed[w.sock] # t THEN believed[w.sock] ELSE 0]
                     ELSE prev
          /\ asked' = IF out.res = "Ok" THEN [asked EXCEPT ![w.sock] = e] ELSE asked
          /\ gone' = gone
          /\ calls' = <<Call("poll_reregister", w.sock,
                             sys_Poll_reregister(reg, w.sock, t, e).res)>>
    /\ UNCHANGED <<inited, socks, nextH, wrappers>>

Poll_deregister(w) ==
    /\ Burn
    /\ UNCHANGED dataVars
    /\ BagIn(w, wrappers)
    /\ LET out == deregister_body(reg, w.sock)
       IN /\ reg' = out.reg
          /\ last' = PollRet("deregister", out.res, w.sock, 0, {})
          /\ believed' = IF out.res = "Ok" THEN [believed EXCEPT ![w.sock] = 0]
                         ELSE believed
          /\ prev' = IF out.res = "Ok" THEN [prev EXCEPT ![w.sock] = 0] ELSE prev
          /\ gone' = IF out.res = "Ok" THEN [gone EXCEPT ![w.sock] = believed[w.sock]]
                     ELSE gone
          /\ asked' = IF out.res = "Ok" THEN [asked EXCEPT ![w.sock] = {}] ELSE asked
          /\ calls' = <<Call("poll_deregister", w.sock,
                             sys_Poll_deregister(reg, w.sock).res)>>
    /\ UNCHANGED <<inited, socks, nextH, wrappers>>

\* What the engine may observe on handle h: rd are the handles with something
\* to receive (data, or a pending connection on a listener).  A handle closed
\* while still registered may be reported in any way.
Observed(s, h, rd) ==
    CASE s[h].st = "connected" -> (IF h \in rd THEN {"Readable"} ELSE {}) \cup {"Writable"}
      [] s[h].st = "listening" -> IF h \in rd THEN {"Readable"} ELSE {}
      [] s[h].st = "closed" -> IF h \in rd THEN Kinds ELSE {}
      [] OTHER -> {}

\* sys::Poll::poll on a buffer holding old: the buffer is cleared and refilled
\* with one event per registration whose interest is observed.
sys_Poll_poll(old, r, s, rd) ==
    {[token |-> x.token, kind |-> x.interest \cap Observed(s, x.h, rd), src |-> x.h] :
        x \in {y \in r : y.interest \cap Observed(s, y.h, rd) # {}}}

\* A variant with one defect (see above): the buffer is not cleared.
poll_body_keep(old, r, s, rd) == old \cup sys_Poll_poll(old, r, s, rd)

\* The body of Poll::poll: the buffer as the call leaves it, and the count
\* returned, which is the engine's.
poll_body(old, r, s, rd) == sys_Poll_poll(old, r, s, rd)
poll_count(old, r, s, rd) == Cardinality(sys_Poll_poll(old, r, s, rd))

\* The sets of registered handles the engine may find with something to
\* receive, when q are the unread bytes per handle: every registered handle
\* with unread bytes is among them.
Receivable(r, q) ==
    {rd \in SUBSET {x.h : x \in r} : \A x \in r : q[x.h] # <<>> => x.h \in rd}

\* Buffers a caller may pass in: a fresh one, or one a previous poll filled.
OldBuffers == {{}, {[token |-> 1, kind |-> {"Readable"}, src |-> 1]}}

Poll_poll ==
    /\ Burn
    /\ UNCHANGED dataVars
    /\ \E o \in PollOutcomes, old \in OldBuffers :
         IF o # "Ok"
         THEN last' = [PollRet("poll", o, 0, 0, old) EXCEPT !.old = old]
         ELSE \E rd \in Receivable(reg, rx) :
              LET ev == poll_body(old, reg, socks, rd)
              IN last' = [PollRet("poll", "Ok", 0, poll_count(old, reg, socks, rd), ev)
                             EXCEPT !.old = old, !.rd = rd]
    /\ calls' = <<Call("poll_poll", 0, last'.res)>>
    /\ UNCHANGED <<inited, socks, nextH, wrappers, reg, believed, prev, gone, asked>>

\* The Events buffer after the last call.
events == last.ev

InitState(n) ==
    /\ budget = n
    /\ rx = [h \in Handle |-> <<>>]
    /\ sent = [h \in Handle |-> <<>>]
    /\ got = [h \in Handle |-> <<>>]
    /\ tx = [h \in Handle |-> 0]
    /\ inited = FALSE
    /\ socks = [h \in Handle |-> NoSock]
    /\ nextH = 1
    /\ wrappers = EmptyBag
    /\ reg = {}
    /\ believed = [h \in Handle |-> 0]
    /\ prev = [h \in Handle |-> 0]
    /\ gone = [h \in Handle |-> 0]
    /\ asked = [h \in Handle |-> {}]
    /\ last = Ret("none", Builder_new, "Ok", 0, 0, NoSock)
    /\ calls = <<>>

Init == InitState(Unlimited)

NextBuilder ==
    \/ \E b \in Builders : Builder_connect(b)
    \/ \E b \in Builders : Builder_bind(b)
    \/ \E b \in Builders, w \in BagToSet(wrappers) : Builder_accept(b, w)
    \/ \E w \in BagToSet(wrappers) : Listener_accept(w)
    \/ \E w \in BagToSet(wrappers) : Drop(w)
    \/ \E h \in Handle : EngineConnected(h)

NextPoll ==
    \/ \E w \in BagToSet(wrappers), t \in Token, e \in EventKind : Poll_register(w, t, e)
    \/ \E w \in BagToSet(wrappers), t \in Token, e \in EventKind : Poll_reregister(w, t, e)
    \/ \E w \in BagToSet(wrappers) : Poll_deregister(w)
    \/ Poll_poll

NextStream ==
    \/ \E w \in BagToSet(wrappers), v \in BOOLEAN, n \in BufLens : Stream_read(w, v, n)
    \/ \E w \in BagToSet(wrappers), v \in BOOLEAN, n \in BufLens : Stream_write(w, v, n)
    \/ \E w \in BagToSet(wrappers) : Stream_flush(w)
    \/ \E h \in Handle : PeerWrite(h)
    \/ \E h \in Handle : EngineSent(h)

Next == NextBuilder \/ NextPoll

\* Construction, teardown and the Poll operations.
Spec == Init /\ [][Next]_vars

\* Construction and teardown only.  The Poll operations leave inited, socks,
\* nextH and wrappers unchanged and no operation below reads reg, believed or
\* prev, so these behaviours reach every value of the construction state that
\* Spec reaches.
SpecBuilder == Init /\ [][NextBuilder]_vars

\* A session of at most MaxOps steps over every operation.
NextAll == NextBuilder \/ NextPoll \/ NextStream
InitOps == InitState(MaxOps)
SpecOps == InitOps /\ [][NextAll]_vars

\* Connections in progress and the Poll: a connection in progress is
\* eventually completed by the engine, and the caller polls again and again,
\* successfully.
PollOk == Poll_poll /\ last'.res = "Ok"
NextLive ==
    \/ Builder_connect(Builder_nonblocking(Builder_new, TRUE))
    \/ \E w \in BagToSet(wrappers) : Drop(w)
    \/ \E h \in Handle : EngineConnected(h)
    \/ \E w \in BagToSet(wrappers), t \in Token, e \in EventKind : Poll_register(w, t, e)
    \/ \E w \in BagToSet(wrappers) : Poll_deregister(w)
    \/ Poll_poll
SpecLive ==
    /\ Init /\ [][NextLive]_vars
    /\ \A h \in Handle : WF_vars(EngineConnected(h))
    /\ WF_vars(PollOk)

\* Streams and their traffic: the Builder and Listener operations that make
\* and drop them, and the Stream operations.
SpecStream == Init /\ [][NextBuilder \/ NextStream]_vars

\* ------------------------------------------------------------- properties
CallIdx(f) == {i \in DOMAIN calls : calls[i].f = f}
Setters == {"set_send_nonblocking", "set_recv_nonblocking"}
\* The number of live Stream and Listener values that own handle h.
Owners(h) == CopiesIn(Stream(h), wrappers) + CopiesIn(Listener(h), wrappers)

\* C1: a nonblocking Builder::connect whose engine connect on the freshly
\* allocated handle reports would-block returns Ok with a Stream that owns that
\* handle and whose connection is in progress; a nonblocking Builder::connect
\* never returns would-block.
C1_WouldBlockSwallowed ==
    (last.op = "connect" /\ last.nb) =>
        /\ last.res # "WouldBlock"
        /\ \A i \in CallIdx("connect") :
             calls[i].r = "WouldBlock" =>
                /\ last.res = "Ok"
                /\ last.h = calls[i].h
                /\ \E j \in CallIdx("new") : j < i /\ calls[j] = Call("new", last.h, "Ok")
                /\ CopiesIn(Stream(last.h), wrappers) = 1
                /\ socks[last.h].st = "connecting"

C1_Witness ==
    /\ last.op = "connect" /\ last.nb /\ last.res = "Ok"
    /\ \E i \in CallIdx("connect") : calls[i].r = "WouldBlock"

\* C2 as stated: after Builder::accept returns Ok the stream's send and receive
\* modes are the builder's mode, whatever mode the stream had before.
C2_ModeIsBuildersMode ==
    (last.op = "baccept" /\ last.res = "Ok") =>
        /\ socks[last.h].snd_nb = last.nb
        /\ socks[last.h].rcv_nb = last.nb

\* C2 amended: after Builder::accept returns Ok, with a nonblocking builder both
\* directions are nonblocking whatever they were before; with a blocking builder
\* each direction has the mode the stream had before the call.
C2_ModeAfterAccept ==
    (last.op = "baccept" /\ last.res = "Ok") =>
        IF last.nb
        THEN socks[last.h].snd_nb /\ socks[last.h].rcv_nb
        ELSE /\ socks[last.h].snd_nb = last.pre.snd_nb
             /\ socks[last.h].rcv_nb = last.pre.rcv_nb

C2_Witness ==
    /\ last.op = "baccept" /\ last.res = "Ok" /\ last.nb
    /\ ~last.pre.snd_nb /\ ~last.pre.rcv_nb
    /\ socks[last.h].snd_nb /\ socks[last.h].rcv_nb

\* C3: Builder::accept with a blocking builder returns the same stream (same
\* handle), its mode flags and connection state unchanged, and makes no engine
\* call; with a nonblocking builder it issues the send and then the receive
\* setter on that same handle, and on Ok both directions are nonblocking.
C3_AcceptFrame ==
    (last.op = "baccept") =>
        IF ~last.nb
        THEN /\ last.res = "Ok"
             /\ last.h = last.arg
             /\ socks[last.h] = last.pre
             /\ calls = <<>>
             /\ CopiesIn(Stream(last.h), wrappers) = 1
        ELSE /\ Len(calls) >= 1
             /\ calls[1].f = "set_send_nonblocking"
             /\ \A i \in DOMAIN calls : calls[i].h = last.arg /\ calls[i].f \in Setters
             /\ last.res = "Ok" =>
                  /\ last.h = last.arg
                  /\ calls = <<Call("set_send_nonblocking", last.h, "Ok"),
                               Call("set_recv_nonblocking", last.h, "Ok")>>
                  /\ socks[last.h] = [last.pre EXCEPT !.snd_nb = TRUE, !.rcv_nb = TRUE]
                  /\ CopiesIn(Stream(last.h), wrappers) = 1

C3_Witness ==
    /\ last.op = "baccept" /\ ~last.nb /\ last.res = "Ok"
    /\ last.pre.snd_nb /\ last.pre.st = "connecting"

\* C4: a Listener returned by Builder::bind is bound and listening with backlog
\* 128; with a nonblocking builder its receive direction is nonblocking and its
\* send flag is at the engine default, never set; with a blocking builder no
\* flag setter is called.
C4_BindListens ==
    (last.op = "bind" /\ last.res = "Ok") =>
        /\ CopiesIn(Listener(last.h), wrappers) = 1
        /\ socks[last.h].st = "listening"
        /\ socks[last.h].backlog = 128
        /\ \E i \in CallIdx("bind"), j \in CallIdx("listen") :
             i < j /\ calls[i].h = last.h /\ calls[j].h = last.h
        /\ CallIdx("set_send_nonblocking") = {}
        /\ socks[last.h].snd_nb = Socket_new.snd_nb
        /\ IF last.nb
           THEN socks[last.h].rcv_nb
           ELSE /\ CallIdx("set_recv_nonblocking") = {}
                /\ socks[last.h].rcv_nb = Socket_new.rcv_nb

C4_Witness ==
    /\ last.op = "bind" /\ last.res = "Ok" /\ last.nb
    /\ socks[last.h].rcv_nb /\ ~socks[last.h].snd_nb

\* C5: a blocking Builder::connect returns Ok exactly when the engine's connect
\* returned Ok, and then the Stream is connected; every engine connect failure,
\* would-block included, is returned as the error and no Stream is produced.
C5_BlockingConnect ==
    (last.op = "connect" /\ ~last.nb) =>
        /\ last.res = "Ok" <=> \E i \in CallIdx("connect") : calls[i].r = "Ok"
        /\ last.res = "Ok" =>
             /\ socks[last.h].st = "connected"
             /\ CopiesIn(Stream(last.h), wrappers) = 1
        /\ \A i \in CallIdx("connect") :
             calls[i].r # "Ok" =>
                /\ last.res = calls[i].r
                /\ last.h = 0
                /\ Owners(calls[i].h) = 0

C5_Witness ==
    /\ last.op = "connect" /\ ~last.nb /\ last.res = "WouldBlock"
    /\ \E i \in CallIdx("connect") : calls[i].r = "WouldBlock"

\* C6: in a nonblocking Builder::connect every failure of an engine call other
\* than a would-block of connect (allocation, either flag setter, connect) ends
\* the call, is returned unchanged, and no Stream is produced.
C6_ErrorsSurface ==
    (last.op = "connect" /\ last.nb) =>
        \A i \in DOMAIN calls :
            (calls[i].r # "Ok" /\ ~(calls[i].f = "connect" /\ calls[i].r = "WouldBlock")) =>
                /\ i = Len(calls)
                /\ last.res = calls[i].r
                /\ last.h = 0
                /\ calls[i].h # 0 => Owners(calls[i].h) = 0

C6_Witness ==
    /\ last.op = "connect" /\ last.nb /\ last.res = "ConnectionRefused"
    /\ \E i \in CallIdx("connect") : calls[i].r = "ConnectionRefused"

\* C7: every live handle is owned by exactly one live Stream or Listener, no
\* wrapper owns a handle that is not live, and the handle allocated by a failed
\* connect or bind, and the stream passed to a failed Builder::accept, is
\* released.
C7_OneOwner ==
    /\ \A h \in Handle : Owners(h) = IF Live(h) THEN 1 ELSE 0
    /\ \A w \in BagToSet(wrappers) : w.sock \in Handle /\ CopiesIn(w, wrappers) = 1
    /\ (last.op \in {"connect", "bind"} /\ last.res # "Ok") =>
          \A i \in CallIdx("new") : calls[i].r = "Ok" => ~Live(calls[i].h)
    /\ (last.op = "baccept" /\ last.res # "Ok") => ~Live(last.arg)

C7_Witness ==
    /\ last.op = "connect" /\ last.res # "Ok"
    /\ \E i \in CallIdx("new") : calls[i].r = "Ok" /\ socks[calls[i].h].st = "closed"
    /\ \E h \in Handle : Live(h) /\ Owners(h) = 1

\* C8: Poll::register on a handle that is registered returns an error and
\* leaves the registrations unchanged; a handle never has two registrations.
C8_RegisterTwice ==
    /\ [](\A x \in reg, y \in reg : x.h = y.h => x = y)
    /\ [][(last'.op = "register" /\ Registered(reg, last'.h)) =>
            (last'.res # "Ok" /\ reg' = reg)]_vars

C8_Witness ==
    /\ last.op = "register" /\ last.res # "Ok"
    /\ \E x \in reg : x.h = last.h /\ x.token # last.arg

\* C9: Poll::reregister on a handle that is not registered returns the
\* engine's error unchanged and creates no registration.
C9_ReregisterUnregistered ==
    [][(last'.op = "reregister" /\ ~Registered(reg, last'.h)) =>
         /\ last'.res # "Ok"
         /\ last'.res = calls'[1].r
         /\ reg' = reg]_vars

C9_Witness ==
    /\ last.op = "reregister" /\ last.res # "Ok"
    /\ ~Registered(reg, last.h)

\* C10: after a reregister of a live handle h returned Ok with a token different
\* from the one h had, every event a poll returns for h carries the new token
\* and not the old one, until h is deregistered or reregistered again.
C10_NewTokenOnly ==
    (last.op = "poll" /\ last.res = "Ok") =>
        \A e \in events :
            (Live(e.src) /\ prev[e.src] # 0) =>
                /\ e.token = believed[e.src]
                /\ e.token # prev[e.src]

C10_Witness ==
    /\ last.op = "poll" /\ last.res = "Ok"
    /\ \E e \in events :
         Live(e.src) /\ prev[e.src] # 0 /\ e.token = believed[e.src]

\* C11: once a deregister of h has returned Ok, and until h is registered
\* again, no poll returns an event for h, nor an event carrying the token h had
\* unless it comes from another handle registered with that token; this holds
\* whether or not h's owner has been dropped since.
C11_NoEventAfterDeregister ==
    (last.op = "poll" /\ last.res = "Ok") =>
        \A h \in Handle :
            gone[h] # 0 =>
                \A e \in events :
                    /\ e.src # h
                    /\ e.token = gone[h] => believed[e.src] = gone[h]

C11_Witness ==
    /\ last.op = "poll" /\ last.res = "Ok"
    /\ \E h \in Handle :
         /\ gone[h] # 0 /\ ~Live(h)
         /\ \E e \in events : e.token = gone[h] /\ e.src # h

\* The event the engine owes registration x when rd are the handles with
\* something to receive, and whether it owes one.
Ready(x, rd) == x.interest \cap Observed(socks, x.h, rd) # {}
EventOf(x, rd) ==
    [token |-> x.token, kind |-> x.interest \cap Observed(socks, x.h, rd), src |-> x.h]

\* C12: after a poll that returned Ok the buffer holds an event for every
\* registration that is ready for its interest at that call, only such events
\* (none left over from the buffer's earlier content), and the count returned
\* is the number of events in the buffer; poll leaves the registrations as
\* they were.
C12_PollExact ==
    /\ []((last.op = "poll" /\ last.res = "Ok") =>
            /\ \A x \in reg : Ready(x, last.rd) => EventOf(x, last.rd) \in events
            /\ \A e \in events : \E x \in reg : Ready(x, last.rd) /\ e = EventOf(x, last.rd)
            /\ last.arg = Cardinality(events))
    /\ [][last'.op = "poll" => reg' = reg]_vars

C12_Witness ==
    /\ last.op = "poll" /\ last.res = "Ok"
    /\ last.old # {} /\ last.old \cap events = {}
    /\ Cardinality(events) = 2 /\ last.arg = 2

\* C16: every Builder::connect and Builder::bind calls the engine's init, and
\* calls it before it allocates its handle; an init of an initialized engine
\* leaves it as the first init left it, and leaves every live handle as it was.
C16_InitFirst ==
    /\ []((last.op \in {"connect", "bind"}) =>
            /\ inited
            /\ CallIdx("init") # {}
            /\ \A i \in CallIdx("new") : \E j \in CallIdx("init") : j < i)
    /\ [][(last'.op \in {"connect", "bind"}) =>
            /\ inited => inited' = inited
            /\ \A h \in Handle : Live(h) => socks'[h] = socks[h]]_vars

C16_Witness ==
    /\ last.op \in {"connect", "bind"} /\ last.res = "Ok"
    /\ CallIdx("new") # {}
    /\ \E h \in Handle : h # last.h /\ Live(h)

\* C18: in a nonblocking Builder::connect the engine's connect is issued only
\* after set_send_nonblocking and then set_recv_nonblocking have both returned
\* Ok on the same handle, so both directions are nonblocking when it is issued;
\* when either setter fails, connect is not issued at all.
C18_SettersBeforeConnect ==
    (last.op = "connect" /\ last.nb) =>
        /\ \A i \in CallIdx("connect") :
             /\ \E j \in 1..(i - 1), k \in 1..(i - 1) :
                  /\ j < k
                  /\ calls[j] = Call("set_send_nonblocking", calls[i].h, "Ok")
                  /\ calls[k] = Call("set_recv_nonblocking", calls[i].h, "Ok")
             /\ last.res = "Ok" => socks[calls[i].h].snd_nb /\ socks[calls[i].h].rcv_nb
        /\ (\E i \in DOMAIN calls : calls[i].f \in Setters /\ calls[i].r # "Ok") =>
             /\ CallIdx("connect") = {}
             /\ last.res # "Ok"

C18_Witness ==
    /\ last.op = "connect" /\ last.nb /\ last.res = "Ok"
    /\ Len(calls) = 5 /\ calls[5].f = "connect"
    /\ socks[last.h].snd_nb /\ socks[last.h].rcv_nb

\* C19: Listener::accept makes one engine call, accept, and no mode setter; the
\* stream it returns has the modes the engine gave the accepted handle (its
\* defaults or the listener's), whether the listener is blocking or not; and
\* the mode flags of a live handle change only in a nonblocking Builder::accept
\* of that handle.
C19_AcceptSetsNoMode ==
    /\ []((last.op = "laccept") =>
            /\ Len(calls) = 1 /\ calls[1].f = "accept" /\ calls[1].h = last.arg
            /\ last.res = "Ok" =>
                 /\ socks[last.h] = last.pre
                 /\ CopiesIn(Stream(last.h), wrappers) = 1
                 /\ \/ ~socks[last.h].snd_nb /\ ~socks[last.h].rcv_nb
                    \/ /\ socks[last.h].snd_nb = socks[last.arg].snd_nb
                       /\ socks[last.h].rcv_nb = socks[last.arg].rcv_nb)
    /\ [][\A h \in Handle :
            (/\ Live(h) /\ socks'[h].st \notin {"free", "closed"}
             /\ <<socks'[h].snd_nb, socks'[h].rcv_nb>> # <<socks[h].snd_nb, socks[h].rcv_nb>>)
            => (last'.op = "baccept" /\ last'.nb /\ last'.arg = h)]_vars

C19_Witness ==
    /\ last.op = "laccept" /\ last.res = "Ok"
    /\ socks[last.arg].rcv_nb
    /\ ~socks[last.h].snd_nb /\ ~socks[last.h].rcv_nb

ReadOps == {"read", "read_vectored"}
WriteOps == {"write", "write_vectored"}

\* C15: on a stream whose receive direction is nonblocking, the bytes that
\* successive reads return are the bytes the peer wrote, in the order written,
\* none lost, none twice: what has been read, followed by what is still unread,
\* is what was written; a read with bytes unread returns the oldest of them;
\* a read with every byte consumed returns would-block and no byte.
C15_ReadsInOrder ==
    /\ [](\A h \in Handle : got[h] \o rx[h] = sent[h])
    /\ [][(last'.op \in ReadOps /\ socks[last'.h].st = "connected"
                                /\ socks[last'.h].rcv_nb) =>
            IF rx[last'.h] # <<>>
            THEN /\ last'.res = "Ok"
                 /\ Len(last'.data) >= 1
                 /\ last'.data = SubSeq(rx[last'.h], 1, Len(last'.data))
                 /\ got'[last'.h] = got[last'.h] \o last'.data
            ELSE /\ last'.res = "WouldBlock"
                 /\ last'.data = <<>>
                 /\ got' = got]_vars

C15_Witness ==
    /\ last.op \in ReadOps /\ last.res = "WouldBlock"
    /\ socks[last.h].rcv_nb
    /\ Len(sent[last.h]) >= 2 /\ got[last.h] = sent[last.h] /\ rx[last.h] = <<>>

\* C20: with reads and writes on the same stream interleaved in any order,
\* a read returns what the engine's receive gives for the receive side alone
\* and leaves the send side as it was, a write returns what the engine's send
\* gives for the send side alone and leaves the receive side as it was; each
\* makes its one engine call and no other call (no lock is taken), and changes
\* no mode flag.
C20_ReadWriteIndependent ==
    /\ [][last'.op \in ReadOps =>
            /\ tx' = tx /\ socks' = socks
            /\ last'.res = Socket_recv(socks[last'.h], rx[last'.h], last'.arg).res
            /\ last'.data = Socket_recv(socks[last'.h], rx[last'.h], last'.arg).data
            /\ Len(calls') = 1 /\ calls'[1].f \in RecvPrims]_vars
    /\ [][last'.op \in WriteOps =>
            /\ rx' = rx /\ got' = got /\ sent' = sent /\ socks' = socks
            /\ last'.res = Socket_send(socks[last'.h], tx[last'.h], last'.arg).res
            /\ Len(calls') = 1 /\ calls'[1].f \in SendPrims]_vars

C20_Witness ==
    /\ last.op \in WriteOps /\ last.res = "Ok"
    /\ got[last.h] # <<>> /\ rx[last.h] # <<>>

\* C14: when a poll returns Ok while a connected handle that the caller has
\* registered with token t and an interest that includes Readable holds bytes
\* the peer wrote and no read has taken, the buffer holds an event for that
\* handle with token t whose kind includes Readable; this is so at every poll
\* for as long as bytes are unread.
C14_ReadableWhileUnread ==
    (last.op = "poll" /\ last.res = "Ok") =>
        \A h \in Handle :
            (/\ socks[h].st = "connected" /\ rx[h] # <<>>
             /\ believed[h] # 0 /\ "Readable" \in asked[h])
            => \E e \in events :
                 e.src = h /\ e.token = believed[h] /\ "Readable" \in e.kind

C14_Witness ==
    /\ last.op = "poll" /\ last.res = "Ok"
    /\ \E h \in Handle :
         /\ socks[h].st = "connected" /\ rx[h] # <<>>
         /\ believed[h] # 0 /\ asked[h] = {"Readable"}
         /\ events = {[token |-> believed[h], kind |-> {"Readable"}, src |-> h]}

\* The engine primitives the operations of net.rs call that can block.
Prims ==
    RecvPrims \cup SendPrims \cup
    {"accept", "connect", "poll_register", "poll_reregister", "poll_deregister", "poll_poll"}
\* The primitives an operation may call, once.
PrimsOf(op) ==
    CASE op = "read" -> {"recv"}
      [] op = "read_vectored" -> {"recv_vectored"}
      [] op = "write" -> {"send"}
      [] op = "write_vectored" -> {"send_vectored"}
      [] op = "laccept" -> {"accept"}
      [] op = "connect" -> {"connect"}
      [] op = "register" -> {"poll_register"}
      [] op = "reregister" -> {"poll_reregister"}
      [] op = "deregister" -> {"poll_deregister"}
      [] op = "poll" -> {"poll_poll"}
      [] OTHER -> {}

\* C17: no operation retries: an operation calls only its own engine
\* primitive and calls it at most once; what a Stream read or write (scalar or
\* vectored), a Listener::accept and a Poll operation return is what that one
\* call returned, so a would-block from recv, send or accept is returned as
\* would-block; only a nonblocking Builder::connect turns a would-block (of
\* connect) into Ok.
C17_NoRetry ==
    /\ \A f \in Prims :
         /\ Cardinality(CallIdx(f)) <= 1
         /\ CallIdx(f) # {} => f \in PrimsOf(last.op)
    /\ (last.op \in ReadOps \cup WriteOps \cup {"register", "reregister", "deregister", "poll"})
         => Len(calls) = 1 /\ calls[1].f \in PrimsOf(last.op) /\ last.res = calls[1].r
    /\ last.op = "laccept" => calls[1].f = "accept" /\ (calls[1].r # "Ok" => last.res = calls[1].r)
    /\ \A i \in DOMAIN calls :
         calls[i].r = "WouldBlock" =>
            IF calls[i].f = "connect" /\ last.nb THEN last.res = "Ok"
            ELSE last.res = "WouldBlock"

C17_Witness ==
    /\ last.op \in WriteOps /\ last.res = "WouldBlock"
    /\ calls = <<Call(IF last.op = "write" THEN "send" ELSE "send_vectored", last.h, "WouldBlock")>>

\* The caller holds a stream on handle h whose connection is in progress and
\* has registered it, Ok, with token t and an interest that includes Writable.
PendingRegistered(h, t) ==
    /\ socks[h].st = "connecting"
    /\ believed[h] = t /\ "Writable" \in asked[h]
\* A poll has returned Ok with an event for h with token t, Writable included.
WritableReported(h, t) ==
    /\ last.op = "poll" /\ last.res = "Ok"
    /\ \E e \in events : e.src = h /\ e.token = t /\ "Writable" \in e.kind

\* C13: when a nonblocking Builder::connect has returned a stream whose
\* connection is in progress and the stream is registered with token t for
\* Writable, then, the connection completing and the caller polling again and
\* again, some poll returns an event with token t whose kind includes
\* Writable, unless the stream is dropped or its registration changed first.
C13_WritableAfterConnect ==
    \A h \in Handle, t \in Token :
        PendingRegistered(h, t) ~>
            \/ WritableReported(h, t)
            \/ ~Live(h)
            \/ believed[h] # t
            \/ "Writable" \notin asked[h]

C13_Witness ==
    /\ last.op = "poll" /\ last.res = "Ok"
    /\ \E h \in Handle :
         /\ PendingRegistered(h, believed[h]) /\ believed[h] # 0
         /\ socks[h].snd_nb /\ socks[h].rcv_nb
         /\ \A e \in events : e.src # h

====
